---- MODULE Spec2Model ----
\* Model of scripts/pst2t_summarize.py: the filtering summary, the two
\* classifier summaries, the reads-per-million tables and the top-level run.
EXTENDS Integers, Sequences, FiniteSets, TLC

VARIABLES
    \* --- read_pathseq_metrics_table, one call ---
    mfile,      \* the filter-metrics file: a sequence of lines
    mpc,        \* position inside read_pathseq_metrics_table
    mdf,        \* the local variable df
    mres,       \* the value returned (None or a Series)
    mtried,     \* the location strategies attempted so far
    \* --- merge_kraken_reports, one call ---
    paired,     \* the paired report file
    unpaired,   \* the unpaired report file
    kpc,        \* "start" or "done"
    kres,       \* the value returned, or the exception raised
    \* --- the header scan of summarize_classification, one call ---
    hfile,      \* the second-classifier report file
    hpc,        \* "loop", "done" or "raised"
    hline,      \* number of lines consumed by the loop
    hst,        \* the scalars total_reads, classified_reads
    hunclassified,  \* unclassified_reads (line 296)
    \* --- one run of main() ---
    disk,           \* the input files of the sample
    pc,             \* position inside main()
    filt_row,       \* the filtering Counter Set
    primary_reads,  \* the normalization denominator
    class_row,      \* the classification Counter Set
    summary_tsv,    \* <sample>.summary.tsv
    kraken_txt,     \* <sample>.kraken.txt
    metaphlan_txt,  \* <sample>.metaphlan.txt
    exit_status,    \* the exit status, once pc = "done"
    log             \* the kinds of message written to stderr

mvars == <<mfile, mpc, mdf, mres, mtried>>
kvars == <<paired, unpaired, kpc, kres>>
hvars == <<hfile, hpc, hline, hst, hunclassified>>

rvars == <<disk, pc, filt_row, primary_reads, class_row, summary_tsv,
           kraken_txt, metaphlan_txt, exit_status, log>>

vars == <<mvars, kvars, hvars, rvars>>

\* ---------------------------------------------------------------------
\* Cells of a delimited text file
\* ---------------------------------------------------------------------
\* A field of a tab-delimited line, before any conversion:
\*   t = "int"  : the text of an integer n (possibly negative)
\*   t = "frac" : the text of a number with a fractional part
\*   t = "text" : any other non-empty text s, preceded by pad blanks
\*   t = "na"   : an empty field (pandas reads it as NaN)
IntCell(n)    == [t |-> "int",  n |-> n, s |-> "", pad |-> 0]
TextCell(str) == [t |-> "text", n |-> 0, s |-> str, pad |-> 0]
PadCell(str)  == [t |-> "text", n |-> 0, s |-> str, pad |-> 2]
FracCell      == [t |-> "frac", n |-> 0, s |-> "", pad |-> 0]
NACell        == [t |-> "na",   n |-> 0, s |-> "", pad |-> 0]

\* Optional[Series]: None, or a Series as a sequence of (label, value) pairs
None == [none |-> TRUE, items |-> <<>>]
Series(items) == [none |-> FALSE, items |-> items]

\* A file on disk: absent, or a sequence of lines
Absent == [exists |-> FALSE, lines |-> <<>>]
File(lines) == [exists |-> TRUE, lines |-> lines]

\* A line: hash = the line starts with '#', f = its tab-separated fields
\* (an empty sequence is a blank line).
Line(h, fields) == [hash |-> h, f |-> fields]
BlankLine   == Line(FALSE, <<>>)
CommentLine == Line(TRUE, <<TextCell("# comment")>>)
OtherLine   == Line(FALSE, <<TextCell("preamble")>>)

Max(a, b) == IF a >= b THEN a ELSE b

\* The sequences over S of length at most n.
RECURSIVE SeqsUpTo(_, _)
SeqsUpTo(S, n) ==
    IF n = 0 THEN {<<>>}
    ELSE LET shorter == SeqsUpTo(S, n - 1)
         IN  shorter \cup {Append(q, x) : q \in shorter, x \in S}

\* Sum of f[x] over a finite set S.
RECURSIVE SumOver(_, _)
SumOver(S, f) ==
    IF S = {} THEN 0
    ELSE LET x == CHOOSE y \in S : TRUE IN f[x] + SumOver(S \ {x}, f)

\* ---------------------------------------------------------------------
\* pandas.read_table as the script uses it
\* ---------------------------------------------------------------------
\* The name pandas gives a column whose header field is c.
ColName(c) == IF c.t = "text" THEN c.s ELSE "<number>"

\* A field sequence padded with empty fields to width w.
PadTo(fields, w) ==
    [i \in 1..w |-> IF i <= Len(fields) THEN fields[i] ELSE NACell]

\* The tokenizer's width check: the header and the first data line are
\* exempt, every later line may not have more fields than the (padded) line
\* before it, whose width is w.
WidthError(data, w) == \E i \in 2..Len(data) : Len(data[i].f) > w

\* The lines the tokenizer parses: blank lines are skipped
\* (skip_blank_lines), and so are lines starting with the comment character.
RECURSIVE ParsedLines(_, _)
ParsedLines(ls, commentHash) ==
    IF ls = <<>> THEN <<>>
    ELSE IF Head(ls).f = <<>> \/ (commentHash /\ Head(ls).hash)
         THEN ParsedLines(Tail(ls), commentHash)
         ELSE <<Head(ls)>> \o ParsedLines(Tail(ls), commentHash)

\* The table parsed from the lines `kept` that reach the tokenizer.
ParseLines(kept, hdr, data, h, hasHeader) ==
    IF WidthError(data, IF data = <<>> THEN h ELSE Max(h, Len(data[1].f)))
    THEN [err |-> "ParserError", columns |-> <<>>, rows |-> <<>>]
    ELSE [err |-> "",
          columns |-> IF hasHeader
                      THEN [i \in 1..h |-> ColName(hdr[i])]
                      ELSE [i \in 1..h |-> "<position>"],
          \* w - h leading fields, if any, become the index
          rows |-> [r \in 1..Len(data) |->
                      LET w == Max(h, Len(data[1].f))
                      IN  [i \in 1..h |-> PadTo(data[r].f, w)[w - h + i]]]]

ParseKept(kept, hasHeader) ==
    IF kept = <<>>
    THEN [err |-> "EmptyDataError", columns |-> <<>>, rows |-> <<>>]
    ELSE IF hasHeader
         THEN ParseLines(kept, Head(kept).f, Tail(kept), Len(Head(kept).f), TRUE)
         ELSE ParseLines(kept, <<>>, kept, Len(kept[1].f), FALSE)

\* read_table(path, sep='\t', comment=..., skiprows=..., header=...):
\*   err     : the exception raised ("" if none)
\*   columns : the column names (header given) or 1..width (header=None)
\*   rows    : the data rows, each a sequence of cells, one per column
ReadTable(lines, commentHash, skiprows, hasHeader) ==
    ParseKept(ParsedLines(IF skiprows >= Len(lines) THEN <<>>
                          ELSE SubSeq(lines, skiprows + 1, Len(lines)),
                          commentHash),
              hasHeader)

HasColumn(df, name) == \E i \in 1..Len(df.columns) : df.columns[i] = name

\* ---------------------------------------------------------------------
\* Filter-metrics extractor
\* ---------------------------------------------------------------------
SkipRows == 6

PATHSEQ_COLS == <<"PRIMARY_READS",
                  "READS_AFTER_PREALIGNED_HOST_FILTER",
                  "READS_AFTER_QUALITY_AND_COMPLEXITY_FILTER",
                  "READS_AFTER_HOST_FILTER",
                  "READS_AFTER_DEDUPLICATION",
                  "FINAL_PAIRED_READS",
                  "FINAL_UNPAIRED_READS",
                  "FINAL_TOTAL_READS">>

HeaderLine == Line(FALSE, [i \in 1..Len(PATHSEQ_COLS) |-> TextCell(PATHSEQ_COLS[i])])

\* df.empty or 'PRIMARY_READS' not in df.columns
NeedsSecondRead(df) == df.rows = <<>> \/ ~HasColumn(df, "PRIMARY_READS")

\* for i, ln in enumerate(lines): if ln.startswith('PRIMARY_READS')
StartsWithPrimaryReads(l) ==
    /\ ~l.hash /\ l.f # <<>>
    /\ l.f[1].t = "text" /\ l.f[1].pad = 0 /\ l.f[1].s = "PRIMARY_READS"

\* hdr_idx (0-based), or -1 for None
HdrIdx(lines) ==
    IF \E i \in 1..Len(lines) : StartsWithPrimaryReads(lines[i])
    THEN (CHOOSE i \in 1..Len(lines) :
            /\ StartsWithPrimaryReads(lines[i])
            /\ \A j \in 1..(i - 1) : ~StartsWithPrimaryReads(lines[j])) - 1
    ELSE -1

\* pd.to_numeric(s, errors='coerce').fillna(0) of one cell
ToNumericFill0(c) == IF c.t = "int" THEN c.n ELSE 0

\* s = df.iloc[0]; to_numeric(coerce).fillna(0); astype('Int64'):
\* the Series (column name, value) of the first row, or the TypeError that
\* astype raises on a value with a fractional part.
FirstRowSeries(df) ==
    LET row == df.rows[1]
    IN  IF \E i \in 1..Len(row) : row[i].t = "frac"
        THEN None
        ELSE Series([i \in 1..Len(row) |-> <<df.columns[i], ToNumericFill0(row[i])>>])

\* Series.get(key, default) on a sequence of (label, value) pairs
SeriesGet(s, key, default) ==
    LET it == s.items
    IN  IF \E i \in 1..Len(it) : it[i][1] = key
        THEN it[CHOOSE i \in 1..Len(it) :
                   it[i][1] = key /\ \A j \in 1..(i - 1) : it[j][1] # key][2]
        ELSE default

Keys(s) == [i \in 1..Len(s.items) |-> s.items[i][1]]

NoDf == [err |-> "", columns |-> <<>>, rows |-> <<>>]

\* lines 126-131
ExtractFirstRow(df) ==
    IF df.err # "" THEN None
    ELSE IF Len(df.rows) >= 1 THEN FirstRowSeries(df)
    ELSE None

\* lines 115-124, with hdr_idx = idx
ReadFromHeader(file, idx) ==
    IF idx = -1 THEN None
    ELSE ExtractFirstRow(ReadTable(file.lines, FALSE, idx, TRUE))

\* lines 114-131, with df = d2
AfterSecondRead(file, d2) ==
    IF d2.err # "" THEN None
    ELSE IF HasColumn(d2, "PRIMARY_READS") THEN ExtractFirstRow(d2)
    ELSE ReadFromHeader(file, HdrIdx(file.lines))

\* lines 112-131, with df = d1
AfterFirstRead(file, d1) ==
    IF d1.err # "" THEN None
    ELSE IF NeedsSecondRead(d1)
         THEN AfterSecondRead(file, ReadTable(file.lines, FALSE, SkipRows, TRUE))
         ELSE AfterSecondRead(file, d1)

\* read_pathseq_metrics_table as one function of the file
read_pathseq_metrics_table(file) ==
    IF ~file.exists THEN None
    ELSE AfterFirstRead(file, ReadTable(file.lines, TRUE, 0, TRUE))

\* --- the same function, one step per read ---------------------------
\* line 111: df = pd.read_table(path, comment='#', sep='\t')
MFirstRead ==
    /\ mpc = "start"
    /\ IF ~mfile.exists
       THEN /\ mpc' = "done" /\ mres' = None
            /\ UNCHANGED <<mdf, mtried>>
       ELSE LET d == ReadTable(mfile.lines, TRUE, 0, TRUE)
            IN  /\ mtried' = mtried \cup {1}
                /\ mdf' = d
                /\ IF d.err # "" THEN mpc' = "done" /\ mres' = None
                   ELSE /\ mpc' = IF NeedsSecondRead(d) THEN "line113" ELSE "line114"
                        /\ UNCHANGED mres
    /\ UNCHANGED <<mfile, kvars, hvars, rvars>>

\* line 113: df = pd.read_table(path, sep='\t', skiprows=6)
MSecondRead ==
    /\ mpc = "line113"
    /\ LET d == ReadTable(mfile.lines, FALSE, SkipRows, TRUE)
       IN  /\ mtried' = mtried \cup {2}
           /\ mdf' = d
           /\ IF d.err # "" THEN mpc' = "done" /\ mres' = None
              ELSE mpc' = "line114" /\ UNCHANGED mres
    /\ UNCHANGED <<mfile, kvars, hvars, rvars>>

\* lines 114-124: scan for the header line and read from there
MThirdRead ==
    /\ mpc = "line114"
    /\ ~HasColumn(mdf, "PRIMARY_READS")
    /\ mtried' = mtried \cup {3}
    /\ LET idx == HdrIdx(mfile.lines)
       IN  IF idx = -1
           THEN mpc' = "done" /\ mres' = None /\ UNCHANGED mdf
           ELSE LET d == ReadTable(mfile.lines, FALSE, idx, TRUE)
                IN  /\ mdf' = d
                    /\ IF d.err # "" THEN mpc' = "done" /\ mres' = None
                       ELSE mpc' = "line126" /\ UNCHANGED mres
    /\ UNCHANGED <<mfile, kvars, hvars, rvars>>

\* lines 126-131: the first data row, coerced
MExtract ==
    /\ \/ mpc = "line114" /\ HasColumn(mdf, "PRIMARY_READS")
       \/ mpc = "line126"
    /\ mres' = IF Len(mdf.rows) >= 1 THEN FirstRowSeries(mdf) ELSE None
    /\ mpc' = "done"
    /\ UNCHANGED <<mfile, mdf, mtried, kvars, hvars, rvars>>

\* ---------------------------------------------------------------------
\* Flagstat extractor and filtering summary
\* ---------------------------------------------------------------------
NoInt == [none |-> TRUE, v |-> 0]
SomeInt(n) == [none |-> FALSE, v |-> n]

\* str.isdigit() of a stripped field
IsDigit(c) == c.t = "int" /\ c.n >= 0

\* len(parts) >= 3 and parts[2].strip() == 'primary' and val.isdigit()
PrimaryLine(l) ==
    /\ Len(l.f) >= 3
    /\ l.f[3].t = "text" /\ l.f[3].s = "primary"
    /\ IsDigit(l.f[1])

parse_flagstat_primary(file) ==
    IF \E i \in 1..Len(file.lines) : PrimaryLine(file.lines[i])
    THEN SomeInt(file.lines[CHOOSE i \in 1..Len(file.lines) :
                    /\ PrimaryLine(file.lines[i])
                    /\ \A j \in 1..(i - 1) : ~PrimaryLine(file.lines[j])].f[1].n)
    ELSE NoInt

FlagstatKeys == <<"PRIMARY_READS",
                  "T2T_ALIGNED_PAIRED_PRIMARY",
                  "T2T_UNALIGNED_PAIRED_PRIMARY",
                  "T2T_ALIGNED_UNPAIRED_PRIMARY",
                  "T2T_UNALIGNED_UNPAIRED_PRIMARY">>

\* The (key, value) pairs of the keys of ks, in order, that have a value.
RECURSIVE PresentItems(_, _)
PresentItems(ks, val) ==
    IF ks = <<>> THEN <<>>
    ELSE LET v == val[Head(ks)]
         IN  (IF v.none THEN <<>> ELSE <<(<<Head(ks), v.v>>)>>)
             \o PresentItems(Tail(ks), val)

\* lines 87-89
WithUnalignedTotal(rs) ==
    Series(rs.items \o
           <<(<<"T2T_UNALIGNED_TOTAL_READS",
                SeriesGet(rs, "T2T_UNALIGNED_PAIRED_PRIMARY", 0)
                + SeriesGet(rs, "T2T_UNALIGNED_UNPAIRED_PRIMARY", 0)>>)>>)

\* flag: the five flagstat files, by key
collect_primary_reads(flag) ==
    LET val == [k \in {FlagstatKeys[i] : i \in 1..Len(FlagstatKeys)} |->
                   IF flag[k].exists THEN parse_flagstat_primary(flag[k])
                   ELSE NoInt]
    IN  WithUnalignedTotal(Series(PresentItems(FlagstatKeys, val)))

\* [f'{kind}_{col}' for col in PATHSEQ_COLS], with the values of s
KindItems(kind, s) ==
    [i \in 1..Len(PATHSEQ_COLS) |->
        <<kind \o "_" \o PATHSEQ_COLS[i], SeriesGet(s, PATHSEQ_COLS[i], 0)>>]

\* lines 151-157, from the two Series read
PathseqItems(unaligned, excluded) ==
    Series(KindItems("UNALIGNED", unaligned)
           \o KindItems("EXCLUDED", excluded)
           \o [i \in 1..Len(PATHSEQ_COLS) |->
                 <<"QCFILTER_" \o PATHSEQ_COLS[i],
                   SeriesGet(unaligned, PATHSEQ_COLS[i], 0)
                   + SeriesGet(excluded, PATHSEQ_COLS[i], 0)>>])

\* met: the two filter-metrics files, by kind
collect_pathseq_metrics(met) ==
    PathseqItems(read_pathseq_metrics_table(met["UNALIGNED"]),
                 read_pathseq_metrics_table(met["EXCLUDED"]))

KeysOfKind(kind) ==
    [i \in 1..Len(PATHSEQ_COLS) |-> kind \o "_" \o PATHSEQ_COLS[i]]

FILTER_SUMMARY_ORDER ==
    <<"PRIMARY_READS">>
    \o KeysOfKind("QCFILTER") \o KeysOfKind("UNALIGNED") \o KeysOfKind("EXCLUDED")
    \o <<"T2T_UNALIGNED_TOTAL_READS", "T2T_UNALIGNED_PAIRED_PRIMARY",
         "T2T_UNALIGNED_UNPAIRED_PRIMARY">>

\* merged.reindex(order).fillna(0).astype(int)
Reindex0(sr, order) ==
    Series([i \in 1..Len(order) |-> <<order[i], SeriesGet(sr, order[i], 0)>>])

filtering_summary(flag, met) ==
    Reindex0(Series(collect_primary_reads(flag).items
                    \o collect_pathseq_metrics(met).items),
             FILTER_SUMMARY_ORDER)

\* ---------------------------------------------------------------------
\* First classifier (Kraken2): load and merge
\* ---------------------------------------------------------------------
KRAKEN2_COLS == <<"pct_reads", "reads_clade", "reads_taxon", "minimizers_count",
                  "minimizers_distinct", "rank", "tax_id", "name">>

MICROBIAL_TAX_IDS == {2, 4751, 2157, 10239}
HUMAN_TAX_ID == 9606

\* A loaded table: err = the exception raised ("" if none), rows = its rows
Raised(e) == [err |-> e, rows |-> <<>>]
Table(rows) == [err |-> "", rows |-> rows]

\* A key cell after dtype=str and str.strip(): the text, or NaN for an
\* empty field.
KeyOf(c) == [na |-> c.t = "na",
             s  |-> IF c.t = "text" THEN c.s ELSE IF c.t = "na" THEN "" ELSE "<number>"]

\* Cells of the count columns are integers or non-numeric text here.
load_kraken_report(file) ==
    IF file.lines = <<>> THEN Table(<<>>)
    ELSE
    LET df == ReadTable(file.lines, FALSE, 0, FALSE)
    IN  IF df.err # "" THEN Raised(df.err)
        ELSE IF Len(df.columns) < Len(KRAKEN2_COLS) THEN Raised("ValueError")
        ELSE Table([r \in 1..Len(df.rows) |->
                [pct_reads           |-> ToNumericFill0(df.rows[r][1]),
                 reads_clade         |-> ToNumericFill0(df.rows[r][2]),
                 reads_taxon         |-> ToNumericFill0(df.rows[r][3]),
                 minimizers_count    |-> ToNumericFill0(df.rows[r][4]),
                 minimizers_distinct |-> ToNumericFill0(df.rows[r][5]),
                 rank                |-> KeyOf(df.rows[r][6]),
                 tax_id              |-> ToNumericFill0(df.rows[r][7]),
                 name                |-> KeyOf(df.rows[r][8])]])

\* dfp['reads_clade'] = 2 * dfp['reads_clade'], and reads_taxon likewise
PAIR_FACTOR == 2

\* Variant: reads_taxon is left as read.
Doubled_CladeOnly(rows) ==
    [r \in 1..Len(rows) |-> [rows[r] EXCEPT !.reads_clade = PAIR_FACTOR * @]]

Doubled(rows) ==
    [r \in 1..Len(rows) |->
        [rows[r] EXCEPT !.reads_clade = PAIR_FACTOR * @,
                        !.reads_taxon = PAIR_FACTOR * @]]

GroupKey(row) == <<row.name, row.tax_id, row.rank>>

\* n / d rounded to the nearest integer, ties to even (numpy round)
RoundDiv(n, d) ==
    LET q == n \div d
        r == n % d
    IN  IF 2 * r < d THEN q
        ELSE IF 2 * r > d THEN q + 1
        ELSE IF q % 2 = 0 THEN q ELSE q + 1

\* pct_reads is kept in units of 0.0001 percent: 100.0 * x / total, round(4)
PctScale == 1000000

\* groupby(['name','tax_id','rank']).sum(): one row per key, keys with a
\* NaN component dropped; the rows are kept as a set (row order is not
\* modelled).
GroupSum(rows) ==
    LET idx  == {i \in 1..Len(rows) : ~rows[i].name.na /\ ~rows[i].rank.na}
        keys == {GroupKey(rows[i]) : i \in idx}
        of(k) == {i \in idx : GroupKey(rows[i]) = k}
    IN  {[name        |-> k[1].s,
          tax_id      |-> k[2],
          rank        |-> k[3].s,
          reads_clade |-> SumOver(of(k), [i \in of(k) |-> rows[i].reads_clade]),
          reads_taxon |-> SumOver(of(k), [i \in of(k) |-> rows[i].reads_taxon])]
         : k \in keys}

\* df.loc[cond, 'reads_clade'].sum() over a set of grouped rows
CladeSum(tbl, ids) ==
    LET sel == {r \in tbl : r.tax_id \in ids}
    IN  SumOver(sel, [r \in sel |-> r.reads_clade])

\* Variant: the denominator counts the classified root only.
WithPct_RootOnly(tbl) ==
    LET total_reads == CladeSum(tbl, {1})
    IN  {[pct_reads   |-> IF total_reads > 0
                          THEN RoundDiv(PctScale * r.reads_clade, total_reads)
                          ELSE 0,
          reads_clade |-> r.reads_clade,
          reads_taxon |-> r.reads_taxon,
          rank        |-> r.rank,
          tax_id      |-> r.tax_id,
          name        |-> r.name] : r \in tbl}

WithPct(tbl) ==
    LET total_reads == CladeSum(tbl, {0, 1})
    IN  {[pct_reads   |-> IF total_reads > 0
                          THEN RoundDiv(PctScale * r.reads_clade, total_reads)
                          ELSE 0,
          reads_clade |-> r.reads_clade,
          reads_taxon |-> r.reads_taxon,
          rank        |-> r.rank,
          tax_id      |-> r.tax_id,
          name        |-> r.name] : r \in tbl}

\* Variant: no exception when neither report exists, an empty table instead.
merge_kraken_reports_NoRaise(paired_path, unpaired_path) ==
    LET dfp == IF paired_path.exists THEN load_kraken_report(paired_path) ELSE Table(<<>>)
        dfu == IF unpaired_path.exists THEN load_kraken_report(unpaired_path) ELSE Table(<<>>)
    IN  IF dfp.err # "" THEN [err |-> dfp.err, tbl |-> {}]
        ELSE IF dfu.err # "" THEN [err |-> dfu.err, tbl |-> {}]
        ELSE [err |-> "",
              tbl |-> WithPct(GroupSum(Doubled(dfp.rows) \o Doubled(dfu.rows)))]

\* err is "FileNotFoundError" when neither report exists, the loader's
\* exception when a report is malformed; otherwise tbl is the merged table.
merge_kraken_reports(paired_path, unpaired_path) ==
    IF ~paired_path.exists /\ ~unpaired_path.exists
    THEN [err |-> "FileNotFoundError", tbl |-> {}]
    ELSE
    LET dfp == IF paired_path.exists THEN load_kraken_report(paired_path) ELSE Table(<<>>)
        dfu == IF unpaired_path.exists THEN load_kraken_report(unpaired_path) ELSE Table(<<>>)
    IN  IF dfp.err # "" THEN [err |-> dfp.err, tbl |-> {}]
        ELSE IF dfu.err # "" THEN [err |-> dfu.err, tbl |-> {}]
        ELSE [err |-> "",
              tbl |-> WithPct(GroupSum(Doubled(dfp.rows) \o Doubled(dfu.rows)))]

\* lines 270-274 of summarize_classification
KrakenTotals(tbl) ==
    <<(<<"TOTAL_READS_TESTED",    CladeSum(tbl, {0, 1})>>),
      (<<"UNCLASSIFIED_TOTAL_K2", CladeSum(tbl, {0})>>),
      (<<"CLASSIFIED_TOTAL_K2",   CladeSum(tbl, {1})>>),
      (<<"MICROBIAL_TOTAL_K2",    CladeSum(tbl, MICROBIAL_TAX_IDS)>>),
      (<<"HUMAN_TOTAL_K2",        CladeSum(tbl, {HUMAN_TAX_ID})>>)>>

\* ---------------------------------------------------------------------
\* Second classifier (MetaPhlAn): header scan and table
\* ---------------------------------------------------------------------
\* A comment line of the report is Line(TRUE, tokens): its whitespace-
\* separated tokens after strip('# \n'). The labelled line
\* '#estimated_reads_mapped_to_known_clades:<value>' is Line(TRUE, <<label, value>>).
EstLabel == "#estimated_reads_mapped_to_known_clades:"

IsReads(c) == c.t = "text" /\ c.s = "reads"
\* str.startswith('processed')
StartsWithProcessed(c) == c.t = "text" /\ c.s \in {"processed", "processed:"}

\* 'reads processed' in line
HasReadsProcessed(l) ==
    \E i \in 1..(Len(l.f) - 1) : IsReads(l.f[i]) /\ StartsWithProcessed(l.f[i + 1])

\* The loop of lines 288-290 over parts, from index i (1-based):
\* "found" with the value, "none", or "IndexError" when parts[i+1] or
\* parts[i+2] is read past the end.
RECURSIVE ScanParts(_, _)
ScanParts(parts, i) ==
    IF i > Len(parts) THEN [r |-> "none", v |-> 0]
    ELSE IF ~IsDigit(parts[i]) THEN ScanParts(parts, i + 1)
    ELSE IF i + 1 > Len(parts) THEN [r |-> "IndexError", v |-> 0]
    ELSE IF ~IsReads(parts[i + 1]) THEN ScanParts(parts, i + 1)
    ELSE IF i + 2 > Len(parts) THEN [r |-> "IndexError", v |-> 0]
    ELSE IF StartsWithProcessed(parts[i + 2]) THEN [r |-> "found", v |-> parts[i].n]
    ELSE ScanParts(parts, i + 1)

IsEstLine(l) == l.hash /\ l.f # <<>> /\ l.f[1].t = "text" /\ l.f[1].s = EstLabel

\* int(line.split(':')[1]), or the exception that the code swallows
EstValue(l) ==
    IF Len(l.f) >= 2 /\ l.f[2].t = "int" THEN SomeInt(l.f[2].n) ELSE NoInt

\* One iteration of the loop of lines 283-295 on a '#' line, from the
\* scalars st = [err, total_reads, classified_reads].
ScanLine(st, l) ==
    LET sp == IF HasReadsProcessed(l) THEN ScanParts(l.f, 1)
              ELSE [r |-> "none", v |-> 0]
        ev == IF IsEstLine(l) THEN EstValue(l) ELSE NoInt
    IN  IF sp.r = "IndexError"
        THEN [st EXCEPT !.err = "IndexError"]
        ELSE [err |-> "",
              total_reads |-> IF sp.r = "found" THEN sp.v ELSE st.total_reads,
              classified_reads |-> IF ev.none THEN st.classified_reads ELSE ev.v]

Scan0 == [err |-> "", total_reads |-> 0, classified_reads |-> 0]

\* The whole loop: stops at the first line that does not start with '#'.
RECURSIVE ScanHeader(_, _)
ScanHeader(st, lines) ==
    IF lines = <<>> \/ ~Head(lines).hash \/ st.err # "" THEN st
    ELSE ScanHeader(ScanLine(st, Head(lines)), Tail(lines))

MPA_COLUMNS == <<"clade_name", "clade_taxid", "relative_abundance", "coverage",
                 "estimated_number_of_reads_from_the_clade">>

\* Count and abundance cells are integers or non-numeric text here.
load_metaphlan_table(file) ==
    LET df == ReadTable(file.lines, TRUE, 0, FALSE)
    IN  IF df.err # "" THEN Raised(df.err)
        ELSE IF Len(df.columns) < Len(MPA_COLUMNS) THEN Raised("RuntimeError")
        \* df.columns = MPA_COLUMNS with another number of columns
        ELSE IF Len(df.columns) # Len(MPA_COLUMNS) THEN Raised("ValueError")
        ELSE Table([r \in 1..Len(df.rows) |->
                [clade_name  |-> IF df.rows[r][1].t = "text" THEN df.rows[r][1].s
                                 ELSE "nan",
                 clade_taxid |-> IF df.rows[r][2].t = "int" THEN df.rows[r][2].n
                                 ELSE -1,
                 relative_abundance |-> ToNumericFill0(df.rows[r][3]),
                 coverage    |-> ToNumericFill0(df.rows[r][4]),
                 estimated_number_of_reads_from_the_clade |->
                                 ToNumericFill0(df.rows[r][5])]])

\* str.startswith(prefix) on the clade names that occur in the reports
StartsWith(name, prefix) ==
    \/ prefix = "k__Bacteria"
       /\ name \in {"k__Bacteria", "k__Bacteria|p__Firmicutes"}
    \/ prefix = "k__Archaea"
       /\ name \in {"k__Archaea", "k__Archaea|p__Euryarchaeota"}

EstSum(rows, prefix) ==
    LET sel == {r \in 1..Len(rows) : StartsWith(rows[r].clade_name, prefix)}
    IN  SumOver(sel, [r \in sel |-> rows[r].estimated_number_of_reads_from_the_clade])

\* lines 302-308
MpaTotals(st, rows) ==
    <<(<<"TOTAL_READS_MPA",        st.total_reads>>),
      (<<"CLASSIFIED_READS_MPA",   st.classified_reads>>),
      (<<"UNCLASSIFIED_READS_MPA", Max(0, st.total_reads - st.classified_reads)>>),
      (<<"BACTERIAL_READS_MPA",    EstSum(rows, "k__Bacteria")>>),
      (<<"ARCHAEAL_READS_MPA",     EstSum(rows, "k__Archaea")>>)>>

\* ---------------------------------------------------------------------
\* Normalizer and the top-level run
\* ---------------------------------------------------------------------
Million == 1000000

RECURSIVE GCD(_, _)
GCD(a, b) == IF b = 0 THEN a ELSE GCD(b, a % b)

\* The rational n / d (d > 0) in lowest terms
Ratio(n, d) ==
    LET g == GCD(IF n < 0 THEN -n ELSE n, d)
    IN  IF n = 0 THEN [num |-> 0, den |-> 1] ELSE [num |-> n \div g, den |-> d \div g]

\* Variant: scaled to reads per thousand.
PerMillion_PerThousand(count, denom) == Ratio(1000 * count, denom)

\* 1e6 * count / primary_reads
PerMillion(count, denom) == Ratio(Million * count, denom)

NotWritten == [written |-> FALSE, rows |-> {}]
Written(rows) == [written |-> TRUE, rows |-> rows]

\* lines 327-330
KrakenRpm(tbl, denom) ==
    {[name        |-> r.name,
      tax_id      |-> r.tax_id,
      rank        |-> r.rank,
      reads_clade |-> r.reads_clade,
      reads_taxon |-> r.reads_taxon,
      reads_clade_per_million |-> PerMillion(r.reads_clade, denom),
      reads_taxon_per_million |-> PerMillion(r.reads_taxon, denom),
      pct_reads   |-> r.pct_reads] : r \in tbl}

\* lines 342-344
MpaRpm(rows, denom) ==
    {[clade_name  |-> rows[r].clade_name,
      clade_taxid |-> rows[r].clade_taxid,
      estimated_number_of_reads_from_the_clade |->
          rows[r].estimated_number_of_reads_from_the_clade,
      estimated_number_of_reads_from_the_clade_per_million |->
          PerMillion(rows[r].estimated_number_of_reads_from_the_clade, denom),
      relative_abundance |-> rows[r].relative_abundance,
      coverage    |-> rows[r].coverage] : r \in 1..Len(rows)}

\* ---------------------------------------------------------------------
\* read_pathseq_metrics_table on bounded files
\* ---------------------------------------------------------------------
MaxPreamble == 6

MetricsRow(cells) == Line(FALSE, cells)
RowClean == MetricsRow([i \in 1..8 |-> IntCell(20 - i)])
RowDirty == MetricsRow(<<IntCell(5), TextCell("n/a"), NACell, IntCell(-4),
                        IntCell(1), IntCell(1), IntCell(0), IntCell(1)>>)
RowFrac  == MetricsRow([i \in 1..8 |-> IF i = 6 THEN FracCell ELSE IntCell(2)])
MetricsRows == {RowClean, RowDirty, RowFrac}

MetricsBodies ==
    {<<>>, <<HeaderLine>>, <<RowClean>>}
    \cup {<<HeaderLine, r>> : r \in MetricsRows}
    \cup {<<HeaderLine, r, RowClean>> : r \in MetricsRows}

MetricsFiles ==
    {Absent} \cup
    {File(pre \o body) :
        pre \in SeqsUpTo({CommentLine, BlankLine, OtherLine}, MaxPreamble),
        body \in MetricsBodies}

\* The variables of the calls that a specification does not make
IdleMetrics ==
    mfile = Absent /\ mpc = "idle" /\ mdf = NoDf /\ mres = None /\ mtried = {}
IdleMerge ==
    paired = Absent /\ unpaired = Absent /\ kpc = "idle"
    /\ kres = [err |-> "", tbl |-> {}]
IdleScan ==
    hfile = Absent /\ hpc = "idle" /\ hline = 0 /\ hst = Scan0
    /\ hunclassified = 0

NoDisk == [flag |-> [k \in {FlagstatKeys[i] : i \in 1..Len(FlagstatKeys)} |-> "absent"],
           met |-> [k \in {"UNALIGNED", "EXCLUDED"} |-> "absent"],
           paired |-> "absent", unpaired |-> "absent", mpa |-> "absent"]
IdleRun ==
    /\ disk = NoDisk /\ pc = "idle"
    /\ filt_row = None /\ primary_reads = 0 /\ class_row = Series(<<>>)
    /\ summary_tsv = None /\ kraken_txt = NotWritten /\ metaphlan_txt = NotWritten
    /\ exit_status = 0 /\ log = {}

InitMetrics ==
    /\ mfile \in MetricsFiles
    /\ mpc = "start"
    /\ mdf = NoDf
    /\ mres = None
    /\ mtried = {}
    /\ IdleMerge /\ IdleScan /\ IdleRun

NextMetrics ==
    \/ MFirstRead
    \/ MSecondRead
    \/ MThirdRead
    \/ MExtract

SpecMetrics == InitMetrics /\ [][NextMetrics]_vars

\* ---------------------------------------------------------------------
\* merge_kraken_reports on bounded report pairs
\* ---------------------------------------------------------------------
\* The number of lines of the two reports together
MaxLines == 3

\* The clade read counts of a report line
ReadCounts == {1, 2}

\* (name, tax_id, rank code, indentation of the name in the report)
Taxa == {<<"unclassified", 0, "U", 0>>, <<"root", 1, "R", 0>>,
         <<"Bacteria", 2, "D", 2>>, <<"Proteobacteria", 1224, "P", 2>>}

\* One report line: pct, clade reads, taxon reads, minimizers, distinct
\* minimizers, rank, tax_id, name. The percentage column is the report's own.
KrakenLine(t, rc, rt) ==
    Line(FALSE, <<FracCell, IntCell(rc), IntCell(rt), IntCell(rc), IntCell(rt),
                  TextCell(t[3]), IntCell(t[2]),
                  [t |-> "text", n |-> 0, s |-> t[1], pad |-> t[4]]>>)

KrakenLines ==
    {KrakenLine(t, rc, IF t[2] = 0 THEN rc ELSE rc - 1) :
        t \in Taxa, rc \in ReadCounts}

\* The report of the end-to-end scenario: tax_id 0 with 10 reads, tax_id 1
\* with 90.
ScenarioPaired ==
    File(<<KrakenLine(<<"unclassified", 0, "U", 0>>, 10, 10),
           KrakenLine(<<"root", 1, "R", 0>>, 90, 3)>>)

\* A report without the two minimizer columns (6 fields)
ShortKrakenLine ==
    Line(FALSE, <<FracCell, IntCell(4), IntCell(4), TextCell("U"), IntCell(0),
                  TextCell("unclassified")>>)
MalformedKraken == File(<<ShortKrakenLine>>)

\* The lines q of both reports, the first k of them in the paired report;
\* a report without lines may also be absent, malformed or the scenario's.
InitMerge ==
    /\ \E q \in SeqsUpTo(KrakenLines, MaxLines) : \E k \in 0..Len(q) :
          /\ paired \in {File(SubSeq(q, 1, k))}
                \cup (IF k = 0 THEN {Absent, MalformedKraken, ScenarioPaired} ELSE {})
          /\ unpaired \in {File(SubSeq(q, k + 1, Len(q)))}
                \cup (IF k = Len(q) THEN {Absent, MalformedKraken} ELSE {})
    /\ kpc = "start"
    /\ kres = [err |-> "", tbl |-> {}]
    /\ IdleMetrics /\ IdleScan /\ IdleRun

KMerge ==
    /\ kpc = "start"
    /\ kres' = merge_kraken_reports(paired, unpaired)
    /\ kpc' = "done"
    /\ UNCHANGED <<paired, unpaired, mvars, hvars, rvars>>

NextMerge == KMerge

SpecMerge == InitMerge /\ [][NextMerge]_vars

\* ---------------------------------------------------------------------
\* The header scan on bounded comment blocks
\* ---------------------------------------------------------------------
MaxTokens == 3
MaxHeaderLines == 2

HeaderTokens == {IntCell(7), TextCell("reads"), TextCell("processed")}

HeaderLines ==
    {Line(TRUE, q) : q \in SeqsUpTo(HeaderTokens, MaxTokens) \ {<<>>}}
    \cup {Line(TRUE, <<TextCell(EstLabel), IntCell(3)>>),
          Line(TRUE, <<TextCell(EstLabel), IntCell(9)>>),
          Line(TRUE, <<TextCell(EstLabel), TextCell("n/a")>>)}

MpaLine(name, taxid, est) ==
    Line(FALSE, <<TextCell(name), IntCell(taxid), IntCell(50), IntCell(1), IntCell(est)>>)

MpaTable == <<MpaLine("k__Bacteria", 2, 6),
              MpaLine("k__Bacteria|p__Firmicutes", 1239, 4),
              MpaLine("k__Archaea", 2157, 1)>>

InitScan ==
    /\ hfile \in {File(blk \o tbl) :
                    blk \in SeqsUpTo(HeaderLines, MaxHeaderLines),
                    tbl \in {<<>>, MpaTable}}
    /\ hpc = "loop"
    /\ hline = 0
    /\ hst = Scan0
    /\ hunclassified = 0
    /\ IdleMetrics /\ IdleMerge /\ IdleRun

\* lines 283-295: one iteration on a line that starts with '#'
HScanLine ==
    /\ hpc = "loop"
    /\ hline < Len(hfile.lines)
    /\ hfile.lines[hline + 1].hash
    /\ LET st == ScanLine(hst, hfile.lines[hline + 1])
       IN  /\ hst' = st
           /\ hpc' = IF st.err # "" THEN "raised" ELSE "loop"
    /\ hline' = hline + 1
    /\ UNCHANGED <<hfile, hunclassified, mvars, kvars, rvars>>

\* lines 284-285 and 296: the loop ends, unclassified_reads is derived
HEndLoop ==
    /\ hpc = "loop"
    /\ IF hline = Len(hfile.lines) THEN TRUE ELSE ~hfile.lines[hline + 1].hash
    /\ hunclassified' = Max(0, hst.total_reads - hst.classified_reads)
    /\ hpc' = "done"
    /\ UNCHANGED <<hfile, hline, hst, mvars, kvars, rvars>>

NextScan ==
    \/ HScanLine
    \/ HEndLoop

SpecScan == InitScan /\ [][NextScan]_vars

\* ---------------------------------------------------------------------
\* One run on the input files of a sample
\* ---------------------------------------------------------------------
FlagLine(count, marker) ==
    Line(FALSE, <<IntCell(count), IntCell(0), TextCell(marker)>>)

\* 7 reads processed, 3 of them mapped to known clades
GoodMpaHeader ==
    <<Line(TRUE, <<TextCell("SampleID"), TextCell("sample")>>),
      Line(TRUE, <<IntCell(7), TextCell("reads"), TextCell("processed")>>),
      Line(TRUE, <<TextCell(EstLabel), IntCell(3)>>)>>

\* a table of four columns
ShortMpaTable ==
    <<Line(FALSE, <<TextCell("k__Bacteria"), IntCell(2), IntCell(50), IntCell(1)>>)>>

\* The variants of each input file, by name; disk holds the names.
FileContent(id) ==
    CASE id = "absent" -> Absent
      [] id = "flagstat.no_primary_line" ->
            File(<<FlagLine(250, "total (QC-passed reads + QC-failed reads)")>>)
      [] id = "flagstat.primary_0" -> File(<<FlagLine(0, "primary")>>)
      [] id = "flagstat.primary_100" ->
            File(<<FlagLine(250, "total (QC-passed reads + QC-failed reads)"),
                   FlagLine(100, "primary"), FlagLine(90, "mapped")>>)
      [] id = "flagstat.primary_7" -> File(<<FlagLine(7, "primary")>>)
      [] id = "metrics.clean" ->
            File(<<CommentLine, BlankLine, HeaderLine, RowClean>>)
      [] id = "metrics.dirty" -> File(<<HeaderLine, RowDirty>>)
      [] id = "kraken.empty" -> File(<<>>)
      [] id = "kraken.scenario" -> ScenarioPaired
      [] id = "kraken.malformed" -> MalformedKraken
      [] id = "kraken.unpaired" ->
            File(<<KrakenLine(<<"root", 1, "R", 0>>, 5, 0),
                   KrakenLine(<<"Bacteria", 2, "D", 2>>, 5, 5)>>)
      [] id = "metaphlan.good" -> File(GoodMpaHeader \o MpaTable)
      [] id = "metaphlan.four_columns" -> File(GoodMpaHeader \o ShortMpaTable)
      [] id = "metaphlan.count_last" ->
            File(<<Line(TRUE, <<TextCell("reads"), TextCell("processed:"),
                                IntCell(7)>>)>> \o MpaTable)

RawFlagstatFiles == {"absent", "flagstat.no_primary_line", "flagstat.primary_0",
                     "flagstat.primary_100"}
T2TFlagstatFiles == {"absent", "flagstat.primary_7"}
RunMetricsFiles  == {"absent", "metrics.clean", "metrics.dirty"}
RunPairedFiles   == {"absent", "kraken.empty", "kraken.scenario", "kraken.malformed"}
RunUnpairedFiles == {"absent", "kraken.unpaired", "kraken.malformed"}
RunMpaFiles      == {"absent", "metaphlan.good", "metaphlan.four_columns",
                     "metaphlan.count_last"}

\* The files of the run, by role
FlagFiles == [k \in DOMAIN disk.flag |-> FileContent(disk.flag[k])]
MetFiles  == [k \in DOMAIN disk.met |-> FileContent(disk.met[k])]
PairedFile   == FileContent(disk.paired)
UnpairedFile == FileContent(disk.unpaired)
MpaFile      == FileContent(disk.mpa)

Init ==
    /\ disk \in [flag : {f \in [{FlagstatKeys[i] : i \in 1..Len(FlagstatKeys)}
                                -> RawFlagstatFiles \cup T2TFlagstatFiles] :
                            /\ f["PRIMARY_READS"] \in RawFlagstatFiles
                            /\ \A i \in 2..Len(FlagstatKeys) :
                                  f[FlagstatKeys[i]] \in T2TFlagstatFiles},
                  met : [{"UNALIGNED", "EXCLUDED"} -> RunMetricsFiles],
                  paired : RunPairedFiles,
                  unpaired : RunUnpairedFiles,
                  mpa : RunMpaFiles]
    /\ pc = "start"
    /\ filt_row = None
    /\ primary_reads = 0
    /\ class_row = Series(<<>>)
    /\ summary_tsv = None
    /\ kraken_txt = NotWritten
    /\ metaphlan_txt = NotWritten
    /\ exit_status = 0
    /\ log = {}
    /\ IdleMetrics /\ IdleMerge /\ IdleScan

\* The handler of line 400: an exception that leaves main()
Fatal ==
    /\ pc' = "done"
    /\ exit_status' = 1
    /\ log' = log \cup {"FATAL"}

\* lines 376-377
RunFiltering ==
    /\ pc = "start"
    /\ filt_row' = filtering_summary(FlagFiles, MetFiles)
    /\ primary_reads' = SeriesGet(filt_row', "PRIMARY_READS", 0)
    /\ pc' = "kraken_totals"
    /\ UNCHANGED <<disk, class_row, summary_tsv, kraken_txt, metaphlan_txt,
                   exit_status, log, mvars, kvars, hvars>>

\* summarize_classification, lines 265-276
RunKrakenTotals ==
    /\ pc = "kraken_totals"
    /\ LET m == merge_kraken_reports(PairedFile, UnpairedFile)
       IN  IF m.err = "FileNotFoundError"
           THEN pc' = "mpa_totals" /\ UNCHANGED <<class_row, exit_status, log>>
           ELSE IF m.err # ""
           THEN Fatal /\ UNCHANGED class_row
           ELSE /\ class_row' = Series(KrakenTotals(m.tbl))
                /\ pc' = "mpa_totals"
                /\ UNCHANGED <<exit_status, log>>
    /\ UNCHANGED <<disk, filt_row, primary_reads, summary_tsv, kraken_txt,
                   metaphlan_txt, mvars, kvars, hvars>>

\* summarize_classification, lines 279-313
RunMpaTotals ==
    /\ pc = "mpa_totals"
    /\ IF ~MpaFile.exists
       THEN /\ pc' = "concat"
            /\ log' = IF class_row.items = <<>>
                       THEN log \cup {"WARNING: no classifier outputs"} ELSE log
            /\ UNCHANGED <<class_row, exit_status>>
       ELSE LET st   == ScanHeader(Scan0, MpaFile.lines)
                df_m == load_metaphlan_table(MpaFile)
            IN  IF st.err # "" \/ df_m.err # ""
                THEN Fatal /\ UNCHANGED class_row
                ELSE /\ class_row' = Series(class_row.items \o MpaTotals(st, df_m.rows))
                     /\ pc' = "concat"
                     /\ UNCHANGED <<exit_status, log>>
    /\ UNCHANGED <<disk, filt_row, primary_reads, summary_tsv, kraken_txt,
                   metaphlan_txt, mvars, kvars, hvars>>

\* lines 383-388: the combined row is written
RunWriteSummary ==
    /\ pc = "concat"
    /\ summary_tsv' = Series(filt_row.items \o class_row.items)
    /\ pc' = "normalize"
    /\ UNCHANGED <<disk, filt_row, primary_reads, class_row, kraken_txt,
                   metaphlan_txt, exit_status, log, mvars, kvars, hvars>>

\* line 393: write_normalized_tables, then main() returns
RunWriteNormalized ==
    /\ pc = "normalize"
    /\ IF primary_reads <= 0
       THEN /\ log' = log \cup {"WARNING: PRIMARY_READS <= 0"}
            /\ UNCHANGED <<kraken_txt, metaphlan_txt>>
       ELSE LET dfk == merge_kraken_reports(PairedFile, UnpairedFile)
                dfm == load_metaphlan_table(MpaFile)
                k2  == PairedFile.exists \/ UnpairedFile.exists
            IN  /\ kraken_txt' = IF k2 /\ dfk.err = ""
                                 THEN Written(KrakenRpm(dfk.tbl, primary_reads))
                                 ELSE kraken_txt
                /\ metaphlan_txt' = IF MpaFile.exists /\ dfm.err = ""
                                    THEN Written(MpaRpm(dfm.rows, primary_reads))
                                    ELSE metaphlan_txt
                /\ log' = log
                     \cup (IF k2 /\ dfk.err # ""
                           THEN {"WARNING: Kraken2 normalization failed"} ELSE {})
                     \cup (IF MpaFile.exists /\ dfm.err # ""
                           THEN {"WARNING: MetaPhlAn normalization failed"} ELSE {})
    /\ pc' = "done"
    /\ exit_status' = 0
    /\ UNCHANGED <<disk, filt_row, primary_reads, class_row, summary_tsv,
                   mvars, kvars, hvars>>

Next ==
    \/ RunFiltering
    \/ RunKrakenTotals
    \/ RunMpaTotals
    \/ RunWriteSummary
    \/ RunWriteNormalized

Spec == Init /\ [][Next]_vars

\* =====================================================================
\* Properties
\* =====================================================================
\* The file made of the header line of `file` and everything after it.
AtOffset0(file) ==
    File(SubSeq(file.lines, HdrIdx(file.lines) + 1, Len(file.lines)))

\* C9: header-location independence. Whatever precedes the header line
\* (comments, blank lines, other preamble, any number of them), the call
\* returns what it returns for the same header and rows placed at offset 0.
C9_HeaderLocationIndependence ==
    (mpc = "done" /\ mfile.exists /\ HdrIdx(mfile.lines) >= 0)
        => mres = read_pathseq_metrics_table(AtOffset0(mfile))

\* --- merge_kraken_reports --------------------------------------------
\* The lines of the report files that exist, paired first.
InLines ==
    (IF paired.exists THEN paired.lines ELSE <<>>)
    \o (IF unpaired.exists THEN unpaired.lines ELSE <<>>)

\* (name, tax_id, rank) of a report line
Triple(l) == <<l.f[8].s, l.f[7].n, l.f[6].s>>

LinesOf(tr) == {i \in 1..Len(InLines) : Triple(InLines[i]) = tr}

\* Sum of column c of the report lines with triple tr
InSum(tr, c) == SumOver(LinesOf(tr), [i \in LinesOf(tr) |-> InLines[i].f[c].n])

Total(items, key) == SeriesGet(Series(items), key, 0)

\* C5: the merged table has exactly one row per distinct (name, tax_id,
\* rank) of the input lines, whose reads_clade and reads_taxon are twice the
\* sums over those lines; a paired-only report merges to the same table as
\* its first line and its remaining lines given as paired and unpaired
\* reports; the scenario report gives the totals 200, 20 and 180.
C5_MergeDoublesAndGroups ==
    (kpc = "done" /\ kres.err = "") =>
        /\ {<<r.name, r.tax_id, r.rank>> : r \in kres.tbl}
              = {Triple(InLines[i]) : i \in 1..Len(InLines)}
        /\ Cardinality(kres.tbl)
              = Cardinality({Triple(InLines[i]) : i \in 1..Len(InLines)})
        /\ \A r \in kres.tbl :
              /\ r.reads_clade = 2 * InSum(<<r.name, r.tax_id, r.rank>>, 2)
              /\ r.reads_taxon = 2 * InSum(<<r.name, r.tax_id, r.rank>>, 3)
        /\ (~unpaired.exists /\ Len(paired.lines) >= 2) =>
              kres.tbl = merge_kraken_reports(File(<<Head(paired.lines)>>),
                                              File(Tail(paired.lines))).tbl
        /\ (paired = ScenarioPaired /\ ~unpaired.exists) =>
              /\ Total(KrakenTotals(kres.tbl), "TOTAL_READS_TESTED") = 200
              /\ Total(KrakenTotals(kres.tbl), "UNCLASSIFIED_TOTAL_K2") = 20
              /\ Total(KrakenTotals(kres.tbl), "CLASSIFIED_TOTAL_K2") = 180

\* A merge of two reports that share a taxon, into at least two rows.
C5_Witness ==
    /\ kpc = "done" /\ kres.err = ""
    /\ paired.exists /\ unpaired.exists
    /\ \E i \in 1..Len(paired.lines) : \E j \in 1..Len(unpaired.lines) :
          Triple(paired.lines[i]) = Triple(unpaired.lines[j])
    /\ Cardinality(kres.tbl) >= 2

RootRows(tbl) == {r \in tbl : r.tax_id \in {0, 1}}
PctSum(rows) == SumOver(rows, [r \in rows |-> r.pct_reads])
Abs(x) == IF x < 0 THEN -x ELSE x

\* The denominator, from the input lines: twice the clade reads of the
\* lines with tax_id 0 or 1.
InDenominator ==
    LET sel == {i \in 1..Len(InLines) : InLines[i].f[7].n \in {0, 1}}
    IN  2 * SumOver(sel, [i \in sel |-> InLines[i].f[2].n])

\* C6 as stated: the pct_reads of the rows with tax_id other than 0 and 1
\* sum to at most 100 (PctScale units of 0.0001), within one unit of
\* rounding per row.
C6_NonRootPctAtMost100 ==
    (kpc = "done" /\ kres.err = "") =>
        PctSum(kres.tbl \ RootRows(kres.tbl))
            <= PctScale + Cardinality(kres.tbl \ RootRows(kres.tbl))

\* C6 amended: every pct_reads is 100 x reads_clade / denominator rounded to
\* 4 decimals, the rows with tax_id 0 or 1 sum to 100 within rounding when
\* the denominator is positive, and every pct_reads is 0 when it is 0.
C6_RootPctIs100 ==
    (kpc = "done" /\ kres.err = "") =>
        IF InDenominator > 0
        THEN /\ Abs(PctSum(RootRows(kres.tbl)) - PctScale)
                  <= Cardinality(RootRows(kres.tbl))
             /\ \A r \in kres.tbl :
                  2 * Abs(r.pct_reads * InDenominator - PctScale * r.reads_clade)
                      <= InDenominator
        ELSE \A r \in kres.tbl : r.pct_reads = 0

\* A merged table with both root rows and a non-root row, whose
\* percentages needed rounding.
C6_Witness ==
    /\ kpc = "done" /\ kres.err = "" /\ InDenominator > 0
    /\ Cardinality(RootRows(kres.tbl)) = 2
    /\ kres.tbl \ RootRows(kres.tbl) # {}
    /\ \E r \in kres.tbl : (PctScale * r.reads_clade) % InDenominator # 0

\* --- the header scan ---------------------------------------------------
\* C10: the header scan never fails, and when it ends total and classified
\* are the labelled values or 0 and unclassified = max(0, total - classified)
\* is not negative.
C10_HeaderScanNeverFails ==
    /\ hpc # "raised"
    /\ hpc = "done" =>
          /\ hunclassified >= 0
          /\ hunclassified = Max(0, hst.total_reads - hst.classified_reads)
          /\ (\A i \in 1..Len(hfile.lines) : ~HasReadsProcessed(hfile.lines[i]))
                => hst.total_reads = 0
          /\ (\A i \in 1..Len(hfile.lines) : ~IsEstLine(hfile.lines[i]))
                => hst.classified_reads = 0

\* --- the run -----------------------------------------------------------
\* A report whose first line has fewer than n fields
FewerColumns(file, n) ==
    file.exists /\ file.lines # <<>> /\
    \E i \in 1..Len(file.lines) :
        /\ ~file.lines[i].hash /\ Len(file.lines[i].f) < n
        /\ \A j \in 1..(i - 1) : file.lines[j].hash

SomeMalformed ==
    \/ FewerColumns(PairedFile, 8) \/ FewerColumns(UnpairedFile, 8)
    \/ FewerColumns(MpaFile, 5)

SummaryKeys == {summary_tsv.items[i][1] : i \in 1..Len(summary_tsv.items)}

\* C1: a malformed classifier report never makes the run fatal: the run
\* ends with status 0, the filtering summary computed, the summary row
\* written, and the other classifier's totals in it.
C1_MalformedIsRecoverable ==
    (pc = "done" /\ SomeMalformed) =>
        /\ exit_status = 0
        /\ "FATAL" \notin log
        /\ ~filt_row.none
        /\ ~summary_tsv.none
        /\ (disk.mpa = "metaphlan.good") => "TOTAL_READS_MPA" \in SummaryKeys
        /\ (disk.paired = "kraken.scenario" /\ ~FewerColumns(UnpairedFile, 8))
              => "TOTAL_READS_TESTED" \in SummaryKeys

\* C2: with a PRIMARY_READS of 0 or less the run writes the summary row,
\* writes no normalized table and ends with status 0, whatever classifier
\* files exist.
C2_ZeroDenominatorSkipsNormalization ==
    (pc = "done" /\ primary_reads <= 0) =>
        /\ ~summary_tsv.none
        /\ ~kraken_txt.written
        /\ ~metaphlan_txt.written
        /\ exit_status = 0

ClassificationKeys ==
    {"TOTAL_READS_TESTED", "UNCLASSIFIED_TOTAL_K2", "CLASSIFIED_TOTAL_K2",
     "MICROBIAL_TOTAL_K2", "HUMAN_TOTAL_K2", "TOTAL_READS_MPA",
     "CLASSIFIED_READS_MPA", "UNCLASSIFIED_READS_MPA", "BACTERIAL_READS_MPA",
     "ARCHAEAL_READS_MPA"}

NoClassifierFiles ==
    ~PairedFile.exists /\ ~UnpairedFile.exists /\ ~MpaFile.exists

\* C3: without any classifier file the classification counter set is
\* empty, the summary row has the filtering keys and no classification key,
\* no normalized table is written, a warning is logged and the status is 0.
C3_NoClassifierFiles ==
    (pc = "done" /\ NoClassifierFiles) =>
        /\ class_row.items = <<>>
        /\ ~summary_tsv.none
        /\ Keys(summary_tsv) = Keys(filt_row)
        /\ SummaryKeys \cap ClassificationKeys = {}
        /\ ~kraken_txt.written
        /\ ~metaphlan_txt.written
        /\ "WARNING: no classifier outputs" \in log
        /\ exit_status = 0

\* A finished run without classifier files whose denominator is positive.
C3_Witness ==
    pc = "done" /\ NoClassifierFiles /\ primary_reads > 0 /\ ~summary_tsv.none

\* C4: the filtering Counter Set always has the same keys: PRIMARY_READS,
\* the QCFILTER, UNALIGNED and EXCLUDED groups, then the four T2T
\* paired/unpaired aligned/unaligned counters and T2T_UNALIGNED_TOTAL_READS.
C4_FilteringKeySequence ==
    (pc \notin {"idle", "start"}) =>
        LET ks == Keys(filt_row)
        IN  /\ Len(ks) = 30
            /\ ks[1] = "PRIMARY_READS"
            /\ SubSeq(ks, 2, 25) = KeysOfKind("QCFILTER") \o KeysOfKind("UNALIGNED")
                                      \o KeysOfKind("EXCLUDED")
            /\ {ks[i] : i \in 26..Len(ks)}
                  = {"T2T_ALIGNED_PAIRED_PRIMARY", "T2T_UNALIGNED_PAIRED_PRIMARY",
                     "T2T_ALIGNED_UNPAIRED_PRIMARY", "T2T_UNALIGNED_UNPAIRED_PRIMARY",
                     "T2T_UNALIGNED_TOTAL_READS"}

\* C7: every per-million value of a written table is 1,000,000 x the raw
\* count of its row / the PRIMARY_READS of the summary row of the same run,
\* for both tables; the raw counts are those of the merged (resp. parsed)
\* table; merged reads_clade 180 with PRIMARY_READS 100 gives 1,800,000.
C7_PerMillionScaling ==
    (pc = "done") =>
        LET D == SeriesGet(summary_tsv, "PRIMARY_READS", 0)
        IN  /\ kraken_txt.written =>
                  /\ D > 0
                  /\ \A r \in kraken_txt.rows :
                        /\ r.reads_clade_per_million = Ratio(1000000 * r.reads_clade, D)
                        /\ r.reads_taxon_per_million = Ratio(1000000 * r.reads_taxon, D)
                  /\ {<<r.name, r.tax_id, r.rank, r.reads_clade, r.reads_taxon>> :
                          r \in kraken_txt.rows}
                      = {<<r.name, r.tax_id, r.rank, r.reads_clade, r.reads_taxon>> :
                          r \in merge_kraken_reports(PairedFile, UnpairedFile).tbl}
                  /\ (disk.paired = "kraken.scenario" /\ ~UnpairedFile.exists /\ D = 100)
                        => \E r \in kraken_txt.rows :
                              /\ r.tax_id = 1 /\ r.reads_clade = 180
                              /\ r.reads_clade_per_million = [num |-> 1800000, den |-> 1]
            /\ metaphlan_txt.written =>
                  /\ D > 0
                  /\ \A r \in metaphlan_txt.rows :
                        r.estimated_number_of_reads_from_the_clade_per_million
                          = Ratio(1000000 * r.estimated_number_of_reads_from_the_clade, D)
                  /\ {<<r.clade_name, r.estimated_number_of_reads_from_the_clade>> :
                          r \in metaphlan_txt.rows}
                      = {<<MpaTable[i].f[1].s, MpaTable[i].f[5].n>> :
                          i \in 1..Len(MpaTable)}

\* A finished run that wrote both normalized tables, the first classifier's
\* from the scenario report.
C7_Witness ==
    /\ pc = "done"
    /\ kraken_txt.written /\ kraken_txt.rows # {}
    /\ metaphlan_txt.written /\ metaphlan_txt.rows # {}
    /\ disk.paired = "kraken.scenario" /\ ~UnpairedFile.exists
    /\ primary_reads = 100

\* C8: every value of the written summary row is a non-negative integer.
C8_SummaryValuesNonNegative ==
    (pc = "done" /\ ~summary_tsv.none) =>
        \A i \in 1..Len(summary_tsv.items) : summary_tsv.items[i][2] >= 0

====
